---- MODULE Spec2Model ----
(***************************************************************************)
(* Model of the sync server of openpype/modules/sync_server/sync_server.py *)
(* : the SyncServerThread (run, sync_loop, check_shutdown, stop,           *)
(* reset_timer, _working_sites) and the transfer coroutines upload and     *)
(* download, as they run on the thread's asyncio event loop.               *)
(*                                                                         *)
(* The event loop is single threaded: a coroutine runs from one await to   *)
(* the next without another coroutine running in between.  The sync loop   *)
(* is modelled statement by statement (pc), so the loop thread is busy     *)
(* whenever pc is not one of the await positions; the other coroutines     *)
(* (transfer tasks, the shutdown watcher, the timer) take their steps only *)
(* while the sync loop is suspended (LoopIdle).  stop() and reset_timer()  *)
(* are called from other threads and may happen at any time.               *)
(***************************************************************************)
EXTENDS Integers, Sequences, FiniteSets, TLC

\* ----------------------------------------------------------------- bounds
\* largest batch limit a provider returns (get_provider_batch_limit)
MaxLimit == 2
\* retry threshold of the project configuration (config "retry_cnt")
RetryCnt == 2
\* representations one get_sync_representations query returns at most
MaxRepres == 2
\* files of one representation at most
MaxFiles == 2
\* transfer tasks that may be left behind by aborted iterations at a time
MaxOrphans == 1
\* largest batch limit while long-running tasks are queued
MaxLimitLong == 1
\* files of one representation at most while long-running tasks are queued
MaxFilesLong == 1
\* long-running tasks submitted at most
MaxLongTasks == 2
\* the batch limit while the worker pool is under load
MaxLimitPool == 4
\* long-running tasks submitted at most while it is
MaxLongPool == 1

\* ------------------------------------------------------------ value space
None == "None"

Sites == {"studio", "gdrive"}

\* file path templates of the published files
Paths == {"a", "b"}

\* ids a provider may assign to a transferred file
FileIds == {"id1"}

\* SyncStatus
UNKNOWN == "UNKNOWN"
DO_UPLOAD == "DO_UPLOAD"
DO_DOWNLOAD == "DO_DOWNLOAD"
SYNCED == "SYNCED"
ERROR == "ERROR"

\* exceptions are values with a class and a message
Exc(cls, msg) == [cls |-> cls, msg |-> msg]
NoExc == Exc(None, None)

\* variant: the class name of the exception in place of its message
StrOfClass(e) == e.cls

\* str(exception): the message the exception was built with
Str(e) == e.msg

\* what upload() can raise before the transfer is handed to the executor:
\* get_provider (invalid credentials), create_folder returning nothing
\* (NotADirectoryError, line 105), resolve_paths raising (swallowed at
\* line 95, then the unbound remote_file_path is read at line 98)
UploadSetupErrors ==
    { Exc("NotADirectoryError", "Folder wasn't created. Check permissions.") }

\* what download() can raise before the transfer: get_provider, resolve_paths
\* (not caught there), os.makedirs
DownloadSetupErrors ==
    { Exc("PermissionError", "makedirs denied") }

\* what the provider's upload_file / download_file can raise
TransferErrors == { Exc("IOError", "disk full") }

\* what a call made by the sync loop itself (settings, provider, store) can raise
LoopErrors ==
    { Exc("ConnectionResetError", "connection reset"),
      Exc("ResumableError", "resumable"),
      Exc("KeyError", "retry_cnt") }

Range(s) == { s[i] : i \in DOMAIN s }

Min(a, b) == IF a <= b THEN a ELSE b

\* ------------------------------------------------------- persistent store
\* per-site sync record of a file
SiteRec(id, error, tries) == [id |-> id, error |-> error, tries |-> tries]

Fresh == SiteRec(None, None, 0)
Present == SiteRec("id0", None, 0)

\* the "sites" of a file as the store may hold them when the file is read:
\* on one site only, on both, on none, failed once before (below the retry
\* threshold), failed up to the threshold
FileSites ==
    { [s \in Sites |-> IF s = "studio" THEN Present ELSE Fresh],
      [s \in Sites |-> IF s = "gdrive" THEN Present ELSE Fresh],
      [s \in Sites |-> Present],
      [s \in Sites |-> Fresh],
      [s \in Sites |-> IF s = "studio" THEN Present
                       ELSE SiteRec(None, "disk full", RetryCnt - 1)],
      [s \in Sites |-> IF s = "studio" THEN Present
                       ELSE SiteRec(None, "disk full", RetryCnt)] }

\* a file of a representation, as get_sync_representations returns it
File(fid, path, sites) == [fid |-> fid, path |-> path, sites |-> sites]

\* check_status: what has to be done with a file for the (local, remote) pair
check_status(file, local, remote) ==
    LET l == file.sites[local]
        r == file.sites[remote]
    IN  IF l.id # None /\ r.id # None THEN SYNCED
        ELSE IF l.id # None
             THEN IF r.tries < RetryCnt THEN DO_UPLOAD ELSE ERROR
        ELSE IF r.id # None
             THEN IF l.tries < RetryCnt THEN DO_DOWNLOAD ELSE ERROR
        ELSE UNKNOWN

\* update_db: success stores the file id and clears the error, failure
\* stores the error and counts the attempt; store holds the records of the
\* files of the batch, by (representation, file)
update_db(store, file_id, file, representation, site, error) ==
    [store EXCEPT ![<<representation, file.fid>>][site] =
        IF error = None
        THEN [@ EXCEPT !.id = file_id, !.error = None]
        ELSE [@ EXCEPT !.error = error, !.tries = @ + 1]]

\* ------------------------------------------------------------------ state
VARIABLES
    lock,               \* module.lock: the task that holds it, if any
    long_running_tasks, \* module.long_running_tasks
    projects_processed, \* module.projects_processed
    long_task,          \* check_shutdown local task, while its func is awaited
    submitted,          \* number of long-running tasks submitted so far
    long_ran,           \* per submitted task: its project, and how often its
                        \* func was started
    persistent,         \* the records of the files are read from store
    store,              \* sync records by (representation, file)
    nfail,              \* transfers of the stored file that have failed
    rp,                 \* a call of resolve_paths: arguments and result
    dl,                 \* a call of download_last_published_workfile
    is_running,         \* SyncServerThread.is_running
    pc,                 \* position of the sync_loop coroutine
    wpc,                \* position of the check_shutdown coroutine
    timer,              \* SyncServerThread.timer: "sleeping", or None when
                        \* there is none or it is over
    enabled_projects,   \* sync_loop local
    loop_project,       \* the sync_loop local project_name
    pidx,               \* index of project_name in enabled_projects
    gate_in,            \* module state _working_sites last read for project_name
    skipped_last,       \* history: the project before this one was skipped
    local_site,         \* sync_loop local
    remote_site,        \* sync_loop local
    ri,                 \* index of sync in sync_repres
    nfiles,             \* len(files) of sync
    fi,                 \* index of file in files (0: not in the files loop)
    limit,              \* sync_loop local
    batch_limit,        \* history: the limit the provider gave for this batch
    processed_file_path,\* sync_loop local
    task_files_to_process, \* sync_loop local: the tasks, by task id
    files_processed_info,  \* sync_loop local
    wi,                 \* index of the write-back loop over files_created
    tasks,              \* the transfer tasks alive on the event loop, by id
    written,            \* history: the update_db calls of this batch
    db,                 \* the store's records of the files of this batch
    duplicates,         \* history: the first file of this batch that needed
                        \* a transfer and was passed over for the path of
                        \* a file of another representation
    keep_history,       \* whether duplicates is kept
    stop_called,        \* history: stop() has been called
    raised              \* history: the class of the exception an except
                        \* clause of sync_loop has just handled

vars == << is_running, pc, wpc, timer, enabled_projects, loop_project, pidx, gate_in,
           skipped_last, local_site, remote_site, ri, nfiles, fi, limit,
           batch_limit, processed_file_path, task_files_to_process,
           files_processed_info, wi, tasks, written, db, duplicates,
           keep_history, raised, stop_called, lock, long_running_tasks,
           projects_processed,
           long_task, submitted, long_ran, persistent, store, nfail, rp, dl >>

\* the long-running tasks of the module and the watcher's hold on them
long_vars == << long_running_tasks, projects_processed, long_task, submitted,
                long_ran >>

\* the store as it persists from one iteration to the next
store_vars == << persistent, store, nfail >>

\* the calls of the module-level functions
call_vars == << rp, dl >>

\* what lies outside the locals of sync_loop and check_shutdown
side_vars == << lock, long_vars, store_vars, call_vars >>

\* the locals of one project's pass through the body of the for loop
batch_vars == << local_site, remote_site, ri, nfiles, fi, limit, batch_limit,
                 processed_file_path, task_files_to_process,
                 files_processed_info, wi, written, db, duplicates >>

\* module.lock, free or held by task t
Free == << >>
HeldBy(t) == << t >>

NoGate == [paused |-> FALSE, active |-> None, remote |-> None,
           enabled |-> FALSE, working |-> {}]

\* variant: update_db awaited, so that the write-back loop yields too
LoopIdleInWriteBack ==
    /\ pc \in {"gather", "delay", "timer_cancelled", "done", "cancelled",
               "writeback"}
    /\ lock = Free

\* the sync loop is suspended in an await (or has not started, or is over)
\* and no task is inside the section it runs without awaiting: the event
\* loop is free to run another coroutine
LoopIdle ==
    /\ pc \in {"gather", "delay", "timer_cancelled", "done", "cancelled"}
    /\ lock = Free

\* the scheduler runs: run() has started it and loop.stop() was not called
LoopRuns == pc # "init" /\ wpc # "stopped"

InitBatch ==
    /\ is_running = FALSE
    /\ pc = "init"
    /\ wpc = "init"
    /\ timer = None
    /\ enabled_projects = << >>
    /\ loop_project = None
    /\ pidx = 0
    /\ gate_in = NoGate
    /\ skipped_last = FALSE
    /\ local_site = None
    /\ remote_site = None
    /\ ri = 0
    /\ nfiles = 0
    /\ fi = 0
    /\ limit = 0
    /\ batch_limit = 0
    /\ processed_file_path = {}
    /\ task_files_to_process = << >>
    /\ files_processed_info = << >>
    /\ wi = 0
    /\ tasks = << >>
    /\ written = << >>
    /\ db = << >>
    /\ duplicates = {}
    /\ raised = None
    /\ stop_called = FALSE

\* the module after construction: the lock free, no long-running task
InitModule ==
    /\ lock = Free
    /\ long_running_tasks = << >>
    /\ projects_processed = {}
    /\ long_task = None
    /\ submitted = 0
    /\ long_ran = << >>

\* the records are given anew with every file that is read
NoStore ==
    /\ persistent = FALSE
    /\ store = << >>
    /\ nfail = 0

\* no call of the module-level functions is under way
NoCall ==
    /\ rp = [st |-> "idle"]
    /\ dl = [st |-> "idle"]

\* after construction; no history of passed-over files is kept
Init == InitBatch /\ keep_history = FALSE /\ InitModule /\ NoStore /\ NoCall

\* after construction, with the history of passed-over files kept
InitHistory ==
    InitBatch /\ keep_history = TRUE /\ InitModule /\ NoStore /\ NoCall

\* the locals of the for body, as they are before a project is entered
ClearBatch ==
    /\ local_site' = None
    /\ remote_site' = None
    /\ ri' = 0
    /\ nfiles' = 0
    /\ fi' = 0
    /\ limit' = 0
    /\ batch_limit' = 0
    /\ processed_file_path' = {}
    /\ task_files_to_process' = << >>
    /\ files_processed_info' = << >>
    /\ wi' = 0
    /\ written' = << >>
    /\ db' = << >>
    /\ duplicates' = {}

\* ------------------------------------------------- thread start and stop
\* run(): sets the flag and schedules check_shutdown and sync_loop
Run ==
    /\ pc = "init"
    /\ is_running' = TRUE
    /\ pc' = "while"
    /\ wpc' = "poll"
    /\ UNCHANGED << timer, enabled_projects, loop_project, pidx, gate_in, skipped_last,
                    batch_vars, tasks >>
    /\ UNCHANGED << keep_history, raised, stop_called >>
    /\ UNCHANGED side_vars

\* stop(): called by the module from another thread, at any time (before
\* run() the flag is false already)
Stop ==
    /\ is_running
    /\ is_running' = FALSE
    /\ stop_called' = TRUE
    /\ UNCHANGED << pc, wpc, timer, enabled_projects, loop_project, pidx, gate_in,
                    skipped_last, batch_vars, tasks >>
    /\ UNCHANGED << keep_history, raised >>
    /\ UNCHANGED side_vars

\* stop() called after the thread was started and before run() has set the
\* flag: the flag is false and stays so
StopBeforeRun ==
    /\ pc = "init"
    /\ ~stop_called
    /\ is_running' = FALSE
    /\ stop_called' = TRUE
    /\ UNCHANGED << pc, wpc, timer, enabled_projects, loop_project, pidx, gate_in,
                    skipped_last, batch_vars, tasks >>
    /\ UNCHANGED << keep_history, raised >>
    /\ UNCHANGED side_vars

\* --------------------------------------------------------------- sync_loop
\* what get_enabled_projects may return: the enabled ones, in settings order
EnabledChoices == { << >>, <<"p1">>, <<"p1", "p2">> }

project_name == enabled_projects[pidx]

\* the tasks the event loop still has to run or has not handed over
Unfinished(ts) ==
    { t \in DOMAIN ts :
        ts[t].st \in {"created", "locked", "queued", "transfer", "returned"} }

\* a task nobody awaits any more: what is left of it is that it runs (and,
\* where the store is followed from iteration to iteration, its path)
Orphan(task) ==
    [kind |-> "orphan", project |-> task.project, repre |-> 0, fid |-> 0,
     path |-> IF persistent THEN task.path ELSE None, site |-> None,
     st |-> task.st, res |-> task.res, nwb |-> 0, log |-> task.log]

\* the except clauses of sync_loop: ConnectionResetError and ResumableError
\* are logged, CancelledError is passed, anything else calls self.stop();
\* in every case control is back at the while condition
Handler(e) ==
    /\ pc' = "while"
    /\ raised' = e.cls
    /\ stop_called' =
          IF e.cls \in {"ConnectionResetError", "ResumableError", "CancelledError"}
          THEN stop_called
          ELSE TRUE
    /\ is_running' =
          IF e.cls \in {"ConnectionResetError", "ResumableError", "CancelledError"}
          THEN is_running
          ELSE FALSE

\* variant: without line 524, the name of the pass before is kept
project_name_kept == loop_project

\* project_name = None, line 524
project_name_reset == None

\* while self.is_running and not self.module.is_paused(): start an iteration
\* (settings cache cleaned, project_name reset, enabled projects listed) or
\* leave the coroutine
WhileCheck(paused) ==
    /\ pc = "while"
    /\ LoopRuns
    /\ IF is_running /\ ~paused
       THEN \E ep \in EnabledChoices :
                /\ enabled_projects' = ep
                /\ pidx' = 1
                /\ pc' = "for"
                /\ loop_project' = project_name_reset
       ELSE /\ pc' = "done"
            /\ enabled_projects' = << >>
            /\ pidx' = 0
            /\ UNCHANGED loop_project
    /\ skipped_last' = FALSE
    /\ UNCHANGED << is_running, wpc, timer, gate_in, batch_vars, tasks >>
    /\ raised' = None
    /\ UNCHANGED << keep_history, stop_called >>
    /\ UNCHANGED side_vars

\* for project_name in enabled_projects: the module state _working_sites
\* reads for the project (is_project_paused, get_active_site,
\* get_remote_site, the project's "enabled" setting, is_active() per site)
ReadSites(paused, active, remote, enabled, working) ==
    /\ pc = "for"
    /\ LoopRuns
    /\ pidx <= Len(enabled_projects)
    /\ gate_in' = [paused |-> paused, active |-> active, remote |-> remote,
                   enabled |-> enabled, working |-> working]
    /\ pc' = "gate"
    /\ loop_project' = enabled_projects[pidx]
    /\ skipped_last' = FALSE
    /\ UNCHANGED << is_running, wpc, timer, enabled_projects, pidx,
                    batch_vars, tasks >>
    /\ UNCHANGED << keep_history, raised, stop_called >>
    /\ UNCHANGED side_vars

_get_configured_sites_from_setting(g) ==
    IF ~g.enabled THEN {} ELSE { s \in Sites : s \in g.working }

\* variant: any() in place of all() at line 735
_working_sites_any(g) ==
    IF g.paused THEN <<None, None>>
    ELSE IF g.active = g.remote THEN <<None, None>>
    ELSE IF ~(g.active \in _get_configured_sites_from_setting(g)
              \/ g.remote \in _get_configured_sites_from_setting(g))
         THEN <<None, None>>
    ELSE <<g.active, g.remote>>

_working_sites(g) ==
    IF g.paused THEN <<None, None>>
    ELSE IF g.active = g.remote THEN <<None, None>>
    ELSE IF ~(g.active \in _get_configured_sites_from_setting(g)
              /\ g.remote \in _get_configured_sites_from_setting(g))
         THEN <<None, None>>
    ELSE <<g.active, g.remote>>

\* all([local_site, remote_site])
BothSites(ws) == ws[1] # None /\ ws[2] # None

\* variant: break in place of continue at line 531
SkipProjectBreak ==
    /\ pidx' = Len(enabled_projects) + 1
    /\ pc' = "for"
    /\ skipped_last' = TRUE
    /\ UNCHANGED batch_vars

\* the gate fails: continue with the next project
SkipProject ==
    /\ pidx' = pidx + 1
    /\ pc' = "for"
    /\ skipped_last' = TRUE
    /\ UNCHANGED batch_vars

\* the gate passes: the candidates are queried, the handler and the batch
\* limit K fetched
EnterProject(K) ==
    /\ local_site' = _working_sites(gate_in)[1]
    /\ remote_site' = _working_sites(gate_in)[2]
    /\ task_files_to_process' = << >>
    /\ files_processed_info' = << >>
    /\ processed_file_path' = {}
    /\ limit' = K
    /\ batch_limit' = K
    /\ ri' = 0
    /\ nfiles' = 0
    /\ fi' = 0
    /\ wi' = 0
    /\ written' = << >>
    /\ db' = << >>
    /\ duplicates' = {}
    /\ pc' = "sched"
    /\ UNCHANGED << pidx, skipped_last >>

\* lines 529-558
Gate(K) ==
    /\ pc = "gate"
    /\ LoopRuns
    /\ IF ~BothSites(_working_sites(gate_in))
       THEN SkipProject
       ELSE EnterProject(K)
    /\ UNCHANGED << is_running, wpc, timer, enabled_projects, loop_project, gate_in, tasks >>
    /\ UNCHANGED << keep_history, raised, stop_called >>
    /\ UNCHANGED side_vars

\* asyncio.create_task: the tasks of a batch are named by their place in
\* task_files_to_process
NewTaskId == Len(task_files_to_process) + 1

NoResult == [exc |-> NoExc, value |-> None]

\* what a task has called so far, as its steps note it: whether
\* resolve_paths returned or raised, what create_folder
\* returned, whether the byte transfer returned a file id, the calls of
\* handle_alternate_site and the arguments of the last one
NoLog ==
    [paths |-> None, folder |-> None, sent |-> FALSE, nalt |-> 0, alt |-> None]

\* the coroutine object upload(...) or download(...) wrapped in a task
NewTask(kind, file) ==
    [kind |-> kind, project |-> project_name, repre |-> ri,
     fid |-> file.fid, path |-> file.path, site |-> remote_site,
     st |-> "created", res |-> NoResult, nwb |-> 0, log |-> NoLog]

\* the bookkeeping tuple (file, sync, site, project_name)
Info(file, site) ==
    [file |-> file, repre |-> ri, site |-> site, project |-> project_name]

\* variant: the remote site at line 619 as at line 598
InfoSiteRemote(kind) == remote_site

\* the site the outcome of a task is booked on: the remote site for an
\* upload (line 598), the local site for a download (line 619)
InfoSite(kind) == IF kind = "upload" THEN remote_site ELSE local_site

\* variant: without the test of lines 563-564
SkippedUnlessPaused(paused, n) == limit <= 0 \/ n = 0

\* lines 563-568: the representation is passed over when it is paused, when
\* the limit is used up, or when it has no files
Skipped(paused, n) == paused \/ limit <= 0 \/ n = 0

\* for sync in sync_repres: the query yields one more representation, of n
\* files; the two guards before its files are looked at (lines 563-568),
\* paused being what is_representation_paused answers
SchedRepre(paused, n) ==
    /\ pc = "sched"
    /\ LoopRuns
    /\ fi = 0
    /\ ri < MaxRepres
    /\ ri' = ri + 1
    /\ IF Skipped(paused, n)
       THEN nfiles' = 0 /\ fi' = 0
       ELSE nfiles' = n /\ fi' = 1
    /\ UNCHANGED << is_running, pc, wpc, timer, enabled_projects, loop_project, pidx,
                    gate_in, skipped_last, local_site, remote_site, limit,
                    batch_limit, processed_file_path, task_files_to_process,
                    files_processed_info, wi, tasks, written, db, duplicates >>
    /\ UNCHANGED << keep_history, raised, stop_called >>
    /\ UNCHANGED side_vars

\* variant: a task for a file in error as well
ScheduledWithError == {DO_UPLOAD, DO_DOWNLOAD, ERROR}

\* lines 580 and 601: the statuses a transfer task is created for
Scheduled == {DO_UPLOAD, DO_DOWNLOAD}

\* variant: without the test of lines 572-573
NeverProcessed(path) == FALSE

\* lines 571-573: a file whose path was scheduled in this batch is skipped
AlreadyProcessed(path) == path \in processed_file_path

\* for file in files, lines 569-621: the next file of sync has this path
\* and these sync records; the first file passed over for the path of
\* another representation's file is remembered with its records when it is
\* one that needs a transfer
SchedFile(path, sites) ==
    /\ pc = "sched"
    /\ LoopRuns
    /\ fi >= 1
    /\ LET file == File(fi, path, sites)
           status == check_status(file, local_site, remote_site)
           kind == IF status = DO_UPLOAD THEN "upload" ELSE "download"
       IN  IF AlreadyProcessed(file.path)
           THEN /\ IF /\ keep_history
                      /\ duplicates = {}
                      /\ \A i \in DOMAIN files_processed_info :
                             files_processed_info[i].file.path = path
                             => files_processed_info[i].repre # ri
                      /\ status \in Scheduled
                   THEN /\ duplicates' = duplicates \cup
                               {[repre |-> ri, fid |-> fi, path |-> path]}
                        /\ db' = db @@ (<<ri, fi>> :> sites)
                   ELSE UNCHANGED << db, duplicates >>
                /\ UNCHANGED << limit, tasks, task_files_to_process,
                                files_processed_info, processed_file_path >>
           ELSE IF status \in Scheduled
           THEN /\ limit' = limit - 1
                /\ UNCHANGED duplicates
                /\ tasks' = tasks @@ (NewTaskId :> NewTask(kind, file))
                /\ task_files_to_process' =
                       Append(task_files_to_process, NewTaskId)
                /\ files_processed_info' =
                       Append(files_processed_info, Info(file, InfoSite(kind)))
                /\ processed_file_path' = processed_file_path \cup {file.path}
                /\ db' = db @@ (<<ri, fi>> :> sites)
           ELSE UNCHANGED << limit, tasks, task_files_to_process,
                             files_processed_info, processed_file_path, db,
                             duplicates >>
    /\ IF fi < nfiles
       THEN fi' = fi + 1 /\ nfiles' = nfiles
       ELSE fi' = 0 /\ nfiles' = 0
    /\ UNCHANGED << is_running, pc, wpc, timer, enabled_projects, loop_project, pidx,
                    gate_in, skipped_last, local_site, remote_site, ri,
                    batch_limit, wi, written >>
    /\ UNCHANGED << keep_history, raised, stop_called >>
    /\ UNCHANGED side_vars

\* variant: gather's default
return_exceptions_default == FALSE

\* gather(..., return_exceptions=True), line 629
return_exceptions == TRUE

Failed(t) == tasks[t].st = "done" /\ tasks[t].res.exc # NoExc

\* variant: asyncio.wait(..., return_when=FIRST_COMPLETED) in place of gather
GatherFirstCompleted ==
    \E i \in DOMAIN task_files_to_process :
        tasks[task_files_to_process[i]].st = "done"

\* the future gather returns is done: every task is done, or, when
\* exceptions are not returned, the first task has raised
GatherDone ==
    \/ \A i \in DOMAIN task_files_to_process :
           tasks[task_files_to_process[i]].st = "done"
    \/ /\ ~return_exceptions
       /\ \E i \in DOMAIN task_files_to_process :
              Failed(task_files_to_process[i])

\* the query has no more representations: the loop over sync_repres is left
\* and its index means nothing any more;
\* files_created = await asyncio.gather(*task_files_to_process, ...): with
\* no task the future is done already and the await does not suspend
SchedEnd ==
    /\ pc = "sched"
    /\ LoopRuns
    /\ fi = 0
    /\ IF task_files_to_process = << >>
       THEN pc' = "writeback" /\ wi' = 1
       ELSE pc' = "gather" /\ wi' = 0
    /\ ri' = 0
    /\ nfiles' = 0
    /\ UNCHANGED << is_running, wpc, timer, enabled_projects, loop_project, pidx, gate_in,
                    skipped_last, local_site, remote_site, fi, limit,
                    batch_limit, processed_file_path, task_files_to_process,
                    files_processed_info, tasks, written, db, duplicates >>
    /\ UNCHANGED << keep_history, raised, stop_called >>
    /\ UNCHANGED side_vars

\* the tasks of the batch that are over go with the lists that held them;
\* the ones still running are named 0, -1, ... from then on
DropBatch ==
    LET left == Unfinished(tasks)
        Rank(t) == Cardinality({ u \in left : u > t })
        Named(n) == CHOOSE t \in left : n = 0 - Rank(t)
    IN  tasks' = [n \in { 0 - Rank(t) : t \in left } |-> Orphan(tasks[Named(n)])]

\* leaving the for body by an exception: the lists of the batch are dropped,
\* the tasks already created stay on the event loop with nobody awaiting them
AbandonBatch ==
    /\ ClearBatch
    /\ gate_in' = NoGate
    /\ skipped_last' = FALSE
    /\ DropBatch

\* the await of line 628 returns (or raises, were exceptions not returned)
GatherReturn ==
    /\ pc = "gather"
    /\ LoopRuns
    /\ lock = Free
    /\ GatherDone
    /\ IF \A i \in DOMAIN task_files_to_process :
              ~Failed(task_files_to_process[i]) \/ return_exceptions
       THEN /\ pc' = "writeback"
            /\ wi' = 1
            /\ UNCHANGED << is_running, raised, stop_called, gate_in, skipped_last, local_site,
                            remote_site, ri, nfiles, fi, limit, batch_limit,
                            processed_file_path, task_files_to_process,
                            files_processed_info, tasks, written, db, duplicates >>
       ELSE /\ \E i \in DOMAIN task_files_to_process :
                   /\ Failed(task_files_to_process[i])
                   /\ Handler(tasks[task_files_to_process[i]].res.exc)
            /\ AbandonBatch
    /\ UNCHANGED << wpc, timer, enabled_projects, loop_project, pidx >>
    /\ UNCHANGED keep_history
    /\ UNCHANGED side_vars

\* isinstance(file_id, BaseException)
IsException(res) == res.exc # NoExc

\* variant: without file_id = None at line 638
WriteBackArgsKeepId(res) ==
    IF IsException(res)
    THEN [file_id |-> res.exc.cls, error |-> Str(res.exc)]
    ELSE [file_id |-> res.value, error |-> None]

\* lines 635-638: the file id and the error handed to update_db
WriteBackArgs(res) ==
    IF IsException(res)
    THEN [file_id |-> None, error |-> Str(res.exc)]
    ELSE [file_id |-> res.value, error |-> None]

\* zip(files_created, files_processed_info) stops with the shorter list
ZipLen == Min(Len(task_files_to_process), Len(files_processed_info))

\* variant: the results in the reverse of the order of the arguments
ResultReversed(i) ==
    tasks[task_files_to_process[Len(task_files_to_process) + 1 - i]].res

\* files_created[i]: gather returns the results in the order of its
\* arguments, whatever the order the tasks were done in
ResultAt(i) == tasks[task_files_to_process[i]].res

\* one pass of the for loop of lines 631-646: one update_db call
WriteBack ==
    /\ pc = "writeback"
    /\ LoopRuns
    /\ wi <= ZipLen
    /\ LET t == task_files_to_process[wi]
           info == files_processed_info[wi]
           a == WriteBackArgs(ResultAt(wi))
       IN  /\ db' = update_db(db, a.file_id, info.file, info.repre,
                              info.site, a.error)
           /\ written' = Append(written,
                  [project |-> info.project, file_id |-> a.file_id,
                   fid |-> info.file.fid, repre |-> info.repre,
                   site |-> info.site, error |-> a.error])
           /\ tasks' = [tasks EXCEPT ![t].nwb = @ + 1]
           /\ store' = IF persistent /\ <<info.repre, info.file.fid>> \in DOMAIN store
                       THEN update_db(store, a.file_id, info.file, info.repre,
                                      info.site, a.error)
                       ELSE store
    /\ wi' = wi + 1
    /\ UNCHANGED << is_running, pc, wpc, timer, enabled_projects, loop_project, pidx,
                    gate_in, skipped_last, local_site, remote_site, ri,
                    nfiles, fi, limit, batch_limit, processed_file_path,
                    task_files_to_process, files_processed_info,
                    duplicates >>
    /\ UNCHANGED << keep_history, raised, stop_called >>
    /\ UNCHANGED << lock, long_vars, persistent, nfail, call_vars >>

\* the write-back loop is over: the for loop takes the next project
WriteBackEnd ==
    /\ pc = "writeback"
    /\ LoopRuns
    /\ wi > ZipLen
    /\ pidx' = pidx + 1
    /\ pc' = "for"
    /\ ClearBatch
    /\ DropBatch
    /\ gate_in' = NoGate
    /\ UNCHANGED << is_running, wpc, timer, enabled_projects, loop_project, skipped_last >>
    /\ UNCHANGED << keep_history, raised, stop_called >>
    /\ UNCHANGED side_vars

\* a call the sync loop makes itself raises inside the try block: reading
\* the settings or the sites, get_sync_representations, get_provider,
\* check_status or handler.get_tree() while scheduling, update_db while
\* writing back, get_loop_delay
LoopRaises(e) ==
    /\ pc \in {"for", "gate", "sched", "writeback"}
    /\ LoopRuns
    /\ Cardinality(Unfinished(tasks)) <= MaxOrphans
    /\ Handler(e)
    /\ AbandonBatch
    /\ UNCHANGED << wpc, timer, enabled_projects, loop_project, pidx >>
    /\ UNCHANGED keep_history
    /\ UNCHANGED side_vars

\* lines 651-656: every project has been taken; get_loop_delay is asked
\* for project_name, which is the last project the for statement took, or
\* None when it took none; the timer task is created and awaited
StartDelay ==
    /\ pc = "for"
    /\ LoopRuns
    /\ pidx > Len(enabled_projects)
    /\ timer' = "sleeping"
    /\ pc' = "delay"
    /\ gate_in' = NoGate
    /\ UNCHANGED << is_running, wpc, enabled_projects, loop_project, pidx,
                    skipped_last, batch_vars, tasks >>
    /\ UNCHANGED << keep_history, raised, stop_called >>
    /\ UNCHANGED side_vars

\* run_timer returns after the delay and the sync loop goes on; a timer
\* task that is over is to reset_timer what no timer is
DelayElapsed ==
    /\ pc = "delay"
    /\ LoopRuns
    /\ lock = Free
    /\ timer = "sleeping"
    /\ timer' = None
    /\ pc' = "while"
    /\ UNCHANGED << is_running, wpc, enabled_projects, loop_project, pidx, gate_in,
                    skipped_last, batch_vars, tasks >>
    /\ UNCHANGED << keep_history, raised, stop_called >>
    /\ UNCHANGED side_vars

\* variant: the cancel reaches whatever the sync loop awaits
InterruptedAtAnyAwait(p, tm) ==
    IF p \in {"delay", "gather"} THEN "timer_cancelled" ELSE p

\* self.timer.cancel(), line 718: where the sync loop is after it.  A task
\* that sleeps is cancelled and the await of line 656 raises; a task that
\* is over is left as it is and nobody is interrupted
Interrupted(p, tm) ==
    IF tm = "sleeping" /\ p = "delay" THEN "timer_cancelled" ELSE p

\* reset_timer(): called by the module from another thread; it cancels the
\* timer task the sync loop awaits
ResetTimer ==
    /\ timer = "sleeping"
    /\ timer' = None
    /\ pc' = Interrupted(pc, timer)
    /\ UNCHANGED << is_running, wpc, enabled_projects, loop_project, pidx, gate_in,
                    skipped_last, batch_vars, tasks >>
    /\ UNCHANGED << keep_history, raised, stop_called >>
    /\ UNCHANGED side_vars

\* run_timer returns after the delay and the sync loop goes on, self.timer
\* still naming the task that is over
DelayElapsedTimerKept ==
    /\ pc = "delay"
    /\ LoopRuns
    /\ lock = Free
    /\ timer = "sleeping"
    /\ timer' = "over"
    /\ pc' = "while"
    /\ UNCHANGED << is_running, wpc, enabled_projects, loop_project, pidx, gate_in,
                    skipped_last, batch_vars, tasks >>
    /\ UNCHANGED << keep_history, raised, stop_called >>
    /\ UNCHANGED side_vars

\* reset_timer() called while self.timer names a task that is over: the
\* test of line 717 passes, cancel() finds the task done, and self.timer
\* becomes None.  (While self.timer is None the call does nothing.)
ResetTimerIdle ==
    /\ timer = "over"
    /\ timer' = None
    /\ pc' = Interrupted(pc, timer)
    /\ UNCHANGED << is_running, wpc, enabled_projects, loop_project, pidx, gate_in,
                    skipped_last, batch_vars, tasks >>
    /\ UNCHANGED << keep_history, raised, stop_called >>
    /\ UNCHANGED side_vars

\* the await of line 656 raises asyncio's CancelledError.  The except clause
\* of line 663 names concurrent.futures' CancelledError: the same class up
\* to Python 3.7 (caught: the next iteration starts), another one from 3.8
\* on (not caught: the coroutine ends)
TimerCancelled(caught) ==
    /\ pc = "timer_cancelled"
    /\ LoopRuns
    /\ lock = Free
    /\ pc' = IF caught THEN "while" ELSE "cancelled"
    /\ UNCHANGED << is_running, wpc, timer, enabled_projects, loop_project, pidx, gate_in,
                    skipped_last, batch_vars, tasks >>
    /\ UNCHANGED << keep_history, raised, stop_called >>
    /\ UNCHANGED side_vars

\* --------------------------------------------------------- transfer tasks
SetupErrors(kind) ==
    IF kind = "upload" THEN UploadSetupErrors
    ELSE IF kind = "download" THEN DownloadSetupErrors
    ELSE UploadSetupErrors \cup DownloadSetupErrors

\* a task is done: the batch that awaits it keeps it, otherwise nobody
\* retrieves its result
Finish(t, res) ==
    IF t \in Range(task_files_to_process)
    THEN [tasks EXCEPT ![t].st = "done", ![t].res = res]
    ELSE [u \in DOMAIN tasks \ {t} |-> tasks[u]]

\* the transfers of the stored file that have failed so far, one more when
\* a task ends with an exception
Failures(exc) ==
    IF persistent /\ exc # NoExc THEN nfail + 1 ELSE nfail

\* variant: a pool of one worker more
max_workers_more == 3 + 1

\* ThreadPoolExecutor(max_workers=3), line 483
max_workers == 3

\* the blocking calls that execute on workers of the pool: byte transfers,
\* of living and of cancelled tasks, and the func of a long-running task
Executing ==
    Cardinality({ t \in DOMAIN tasks : tasks[t].st \in {"transfer", "detached"} })
        + (IF wpc = "long" THEN 1 ELSE 0)

\* upload lines 74-119, download lines 155-186, taken as one step: the first
\* run of the coroutine, under module.lock, up to the await of
\* run_in_executor; it raises e, or (e = NoExc) hands the transfer to the
\* executor, where a worker is free and starts it
TaskSetup(t, e) ==
    /\ LoopIdle
    /\ LoopRuns
    /\ e = NoExc => Executing < max_workers
    /\ t \in DOMAIN tasks
    /\ tasks[t].st = "created"
    /\ e \in SetupErrors(tasks[t].kind) \cup {NoExc}
    /\ tasks' = IF e = NoExc
                THEN [tasks EXCEPT ![t].st = "transfer"]
                ELSE Finish(t, [exc |-> e, value |-> None])
    /\ UNCHANGED << is_running, pc, wpc, timer, enabled_projects, loop_project, pidx,
                    gate_in, skipped_last, batch_vars >>
    /\ UNCHANGED << keep_history, raised, stop_called >>
    /\ nfail' = Failures(e)
    /\ UNCHANGED << lock, long_vars, persistent, store, call_vars >>

\* upload lines 108-125, download lines 175-192, taken as one step:
\* upload_file or download_file has returned the id or raised e on the
\* worker, the coroutine goes on (handle_alternate_site) and returns the
\* file id
TaskTransfer(t, id, e) ==
    /\ LoopIdle
    /\ LoopRuns
    /\ t \in DOMAIN tasks
    /\ tasks[t].st = "transfer"
    /\ tasks' = IF e = NoExc
                THEN Finish(t, [exc |-> NoExc, value |-> id])
                ELSE Finish(t, [exc |-> e, value |-> None])
    /\ UNCHANGED << is_running, pc, wpc, timer, enabled_projects, loop_project, pidx,
                    gate_in, skipped_last, batch_vars >>
    /\ UNCHANGED << keep_history, raised, stop_called >>
    /\ nfail' = Failures(e)
    /\ UNCHANGED << lock, long_vars, persistent, store, call_vars >>

\* ------------------------------------------ transfer tasks, step by step
\* paths of files, no two alike
PathsPool == << "a", "b", "c", "d", "e", "f", "g", "h", "i" >>

\* the "sites" of a file that is on one site only
FileSitesTransfer ==
    { [s \in Sites |-> IF s = "studio" THEN Present ELSE Fresh],
      [s \in Sites |-> IF s = "gdrive" THEN Present ELSE Fresh] }

\* what the locked section raises before the folder is looked at: in upload
\* resolve_paths raised, which is caught and printed (lines 95-96), and
\* line 98 finds remote_file_path unbound; in download resolve_paths raised
EnterErrors(kind) ==
    IF kind = "upload"
    THEN { Exc("UnboundLocalError", "remote_file_path") }
    ELSE { Exc("KeyError", "root") }

\* variant: acquire() and release() around the section, without try/finally
lock_kept_on_raise(t, e) == IF e = NoExc THEN Free ELSE HeldBy(t)

\* with module.lock (lines 74, 155): the lock is released however the block
\* is left
lock_on_exit(t, e) == Free

\* variant: the paths have values before the try block, and the section
\* goes on after the except clause
SectionGoesOn(e) == FALSE

\* upload lines 95-98: the except clause prints what resolve_paths raised,
\* and reading remote_file_path, which was never bound, raises in its turn;
\* download lines 164-167: what resolve_paths raises is not caught
SectionLeft(e) == e # NoExc

\* upload lines 74-98, download lines 155-167: the coroutine starts, takes
\* module.lock, builds the handler and resolves the paths; it goes on
\* holding the lock, or leaves the section with e
TaskEnter(t, e) ==
    /\ LoopIdle
    /\ LoopRuns
    /\ t \in DOMAIN tasks
    /\ tasks[t].st = "created"
    /\ tasks[t].kind \in {"upload", "download"}
    /\ e \in EnterErrors(tasks[t].kind) \cup {NoExc}
    /\ IF ~SectionLeft(e)
       THEN /\ lock' = HeldBy(t)
            /\ tasks' = [tasks EXCEPT
                   ![t].st = "locked",
                   ![t].log.paths = IF e = NoExc THEN "resolved" ELSE "raised"]
       ELSE /\ lock' = lock_on_exit(t, e)
            /\ tasks' = [tasks EXCEPT ![t].st = "done",
                                      ![t].res = [exc |-> e, value |-> None],
                                      ![t].log.paths = "raised"]
    /\ UNCHANGED << is_running, pc, wpc, timer, enabled_projects, loop_project, pidx,
                    gate_in, skipped_last, batch_vars, keep_history, raised, stop_called >>
    /\ UNCHANGED << long_vars, store_vars, rp, dl >>

\* variant: the folder id is not looked at
FolderUnchecked(folder_id) == TRUE

\* if not folder_id, line 101
FolderCreated(folder_id) == folder_id

\* what the end of the locked section raises: NotADirectoryError when the
\* folder was not created (lines 101-105), what os.makedirs raises (line 170)
LeaveError(kind, made) ==
    IF kind = "upload"
    THEN IF FolderCreated(made) THEN NoExc ELSE CHOOSE x \in UploadSetupErrors : TRUE
    ELSE IF made THEN NoExc ELSE CHOOSE x \in DownloadSetupErrors : TRUE

\* upload lines 98-108, download lines 169-175: create_folder returns a
\* folder id or a falsy value (made), os.makedirs succeeds or raises; the
\* section is left, and the transfer handed to the executor unless the
\* section raised
TaskLeave(t, made) ==
    /\ lock = HeldBy(t)
    /\ LoopRuns
    /\ LET e == LeaveError(tasks[t].kind, made)
           noted == IF tasks[t].kind = "upload"
                    THEN [tasks[t].log EXCEPT
                            !.folder = IF made THEN "made" ELSE "not made"]
                    ELSE tasks[t].log
       IN  /\ lock' = lock_on_exit(t, e)
           /\ tasks' = IF e = NoExc
                       THEN [tasks EXCEPT ![t].st = "queued", ![t].log = noted]
                       ELSE [tasks EXCEPT ![t].st = "done",
                                          ![t].res = [exc |-> e, value |-> None],
                                          ![t].log = noted]
    /\ UNCHANGED << is_running, pc, wpc, timer, enabled_projects, loop_project, pidx,
                    gate_in, skipped_last, batch_vars, keep_history, raised, stop_called >>
    /\ UNCHANGED << long_vars, store_vars, rp, dl >>

\* a worker of the pool is free and takes the transfer
WorkerStart(t) ==
    /\ t \in DOMAIN tasks
    /\ tasks[t].st = "queued"
    /\ Executing < max_workers
    /\ tasks' = [tasks EXCEPT ![t].st = "transfer"]
    /\ UNCHANGED << is_running, pc, wpc, timer, enabled_projects, loop_project, pidx,
                    gate_in, skipped_last, batch_vars, keep_history, raised, stop_called >>
    /\ UNCHANGED side_vars

\* upload_file or download_file returns the id or raises e on its worker;
\* the outcome waits for the coroutine, or, the task being cancelled, is
\* taken by nobody
WorkerReturn(t, id, e) ==
    /\ t \in DOMAIN tasks
    /\ tasks[t].st \in {"transfer", "detached"}
    /\ tasks' = [tasks EXCEPT
                    ![t].st = IF @ = "transfer" THEN "returned" ELSE "cancelled",
                    ![t].res = IF tasks[t].st = "detached" THEN @
                               ELSE IF e = NoExc
                               THEN [exc |-> NoExc, value |-> id]
                               ELSE [exc |-> e, value |-> None],
                    ![t].log.sent = (e = NoExc)]
    /\ UNCHANGED << is_running, pc, wpc, timer, enabled_projects, loop_project, pidx,
                    gate_in, skipped_last, batch_vars, keep_history, raised, stop_called >>
    /\ UNCHANGED side_vars

\* the site handle_alternate_site is called with: remote_site_name in
\* upload (line 122), module.get_active_site(project_name) in download
\* (lines 172, 189)
AlternateSite(task) == IF task.kind = "upload" THEN task.site ELSE local_site

\* upload lines 108-125, download lines 175-192: the await of
\* run_in_executor is over; it raises what the transfer raised, or the
\* coroutine calls handle_alternate_site and returns the file id
TaskResume(t) ==
    /\ LoopIdle
    /\ LoopRuns
    /\ t \in DOMAIN tasks
    /\ tasks[t].st = "returned"
    /\ tasks' = IF tasks[t].res.exc = NoExc
                THEN [tasks EXCEPT
                        ![t].st = "done",
                        ![t].log.nalt = @ + 1,
                        ![t].log.alt = [site |-> AlternateSite(tasks[t]),
                                        id |-> tasks[t].res.value]]
                ELSE [tasks EXCEPT ![t].st = "done"]
    /\ UNCHANGED << is_running, pc, wpc, timer, enabled_projects, loop_project, pidx,
                    gate_in, skipped_last, batch_vars, keep_history, raised, stop_called >>
    /\ UNCHANGED side_vars

\* ---------------------------------------------------------- check_shutdown
\* the names of the projects of the store
ProjectNames == {"p1", "p2"}

\* the module queues a long-running task for a project (for one,
\* create_validate_project_task): the project is entered in
\* projects_processed and the task appended to long_running_tasks
Submit(name) ==
    /\ pc # "init"
    /\ submitted < MaxLongTasks
    /\ submitted' = submitted + 1
    /\ long_running_tasks' =
           Append(long_running_tasks,
                  [id |-> submitted + 1, project_name |-> name])
    /\ projects_processed' = projects_processed \cup {name}
    /\ long_ran' = Append(long_ran, [project_name |-> name, runs |-> 0])
    /\ UNCHANGED << is_running, pc, wpc, timer, enabled_projects, loop_project, pidx,
                    gate_in, skipped_last, batch_vars, tasks, keep_history,
                    raised, stop_called >>
    /\ UNCHANGED << long_task, lock, store_vars, rp, dl >>

\* lines 686-692, taken as one step: the watcher finds the flag true and a
\* long-running task queued by the module; it pops the task and awaits its
\* function on a worker, which is free and starts it
WatcherLongStart ==
    /\ wpc = "poll"
    /\ LoopIdle
    /\ LoopRuns
    /\ is_running
    /\ long_running_tasks # << >>
    /\ Executing < max_workers
    /\ LET task == long_running_tasks[Len(long_running_tasks)]
       IN  /\ long_task' = task
           /\ long_running_tasks' =
                  SubSeq(long_running_tasks, 1, Len(long_running_tasks) - 1)
           /\ long_ran' = [long_ran EXCEPT ![task.id].runs = @ + 1]
    /\ wpc' = "long"
    /\ UNCHANGED << is_running, pc, timer, enabled_projects, loop_project, pidx,
                    gate_in, skipped_last, batch_vars, tasks, keep_history,
                    raised, stop_called >>
    /\ UNCHANGED << projects_processed, submitted, lock, store_vars, rp, dl >>

\* lines 686-690: the watcher finds the flag true and a long-running task
\* queued by the module; it pops the task and hands its function to the
\* executor
WatcherLongPop ==
    /\ wpc = "poll"
    /\ LoopIdle
    /\ LoopRuns
    /\ is_running
    /\ long_running_tasks # << >>
    /\ long_task' = long_running_tasks[Len(long_running_tasks)]
    /\ long_running_tasks' =
           SubSeq(long_running_tasks, 1, Len(long_running_tasks) - 1)
    /\ wpc' = "long_queued"
    /\ UNCHANGED << is_running, pc, timer, enabled_projects, loop_project, pidx,
                    gate_in, skipped_last, batch_vars, tasks, keep_history,
                    raised, stop_called >>
    /\ UNCHANGED << projects_processed, submitted, long_ran, lock, store_vars,
                    rp, dl >>

\* a worker of the pool is free and starts the function
WorkerStartLong ==
    /\ wpc = "long_queued"
    /\ Executing < max_workers
    /\ long_ran' = [long_ran EXCEPT ![long_task.id].runs = @ + 1]
    /\ wpc' = "long"
    /\ UNCHANGED << is_running, pc, timer, enabled_projects, loop_project, pidx,
                    gate_in, skipped_last, batch_vars, tasks, keep_history,
                    raised, stop_called >>
    /\ UNCHANGED << long_running_tasks, projects_processed, long_task,
                    submitted, lock, store_vars, rp, dl >>

\* lines 690-693: the function has returned and the watcher sleeps until
\* its next poll, or the function (or projects_processed.remove) has raised:
\* nothing in check_shutdown catches it and the coroutine ends
WatcherLongEnd(ok) ==
    /\ wpc = "long"
    /\ LoopIdle
    /\ IF ok /\ long_task.project_name \in projects_processed
       THEN /\ projects_processed' =
                   projects_processed \ {long_task.project_name}
            /\ long_task' = None
            /\ wpc' = "poll"
       ELSE /\ wpc' = "dead"
            /\ UNCHANGED << projects_processed, long_task >>
    /\ UNCHANGED << is_running, pc, timer, enabled_projects, loop_project, pidx,
                    gate_in, skipped_last, batch_vars, tasks, keep_history,
                    raised, stop_called >>
    /\ UNCHANGED << long_running_tasks, submitted, long_ran, lock, store_vars,
                    rp, dl >>

\* lines 686-700: the watcher finds the flag false, cancels every other
\* task and awaits them; the sync loop, suspended in an await, ends; a
\* transfer that waits for a worker is withdrawn, one whose outcome was not
\* taken yet loses it, one that executes on a worker goes on there, detached
\* from its task
WatcherCancel ==
    /\ wpc = "poll"
    /\ LoopIdle
    /\ LoopRuns
    /\ ~is_running
    /\ tasks' = [t \in DOMAIN tasks |->
                    IF tasks[t].st \in {"created", "queued", "returned"}
                    THEN [tasks[t] EXCEPT !.st = "cancelled"]
                    ELSE IF tasks[t].st = "transfer"
                    THEN [tasks[t] EXCEPT !.st = "detached"]
                    ELSE tasks[t]]
    /\ pc' = IF pc \in {"gather", "delay", "timer_cancelled"} THEN "done" ELSE pc
    /\ timer' = None
    /\ wpc' = "teardown"
    /\ UNCHANGED << is_running, enabled_projects, loop_project, pidx, gate_in, skipped_last,
                    batch_vars >>
    /\ UNCHANGED << keep_history, raised, stop_called >>
    /\ UNCHANGED side_vars

\* upload_file or download_file of a cancelled task returns or raises on
\* its worker; nobody takes the outcome
WorkerFinish(t) ==
    /\ t \in DOMAIN tasks
    /\ tasks[t].st = "detached"
    /\ tasks' = [tasks EXCEPT ![t].st = "cancelled"]
    /\ UNCHANGED << is_running, pc, wpc, timer, enabled_projects, loop_project, pidx,
                    gate_in, skipped_last, batch_vars, keep_history, raised, stop_called >>
    /\ UNCHANGED side_vars

\* variant: executor.shutdown(wait=False)
shutdown_nowait == FALSE

\* executor.shutdown(wait=True), line 706
shutdown_wait == TRUE

\* lines 701-706: the executor is shut down; the call returns when no
\* worker executes any more
WatcherShutdown ==
    /\ wpc = "teardown"
    /\ shutdown_wait => \A t \in DOMAIN tasks : tasks[t].st # "detached"
    /\ wpc' = "pool_down"
    /\ UNCHANGED << is_running, pc, timer, enabled_projects, loop_project, pidx,
                    gate_in, skipped_last, batch_vars, tasks, keep_history,
                    raised, stop_called >>
    /\ UNCHANGED side_vars

\* lines 707-708: after the grace sleep the loop is stopped; run_forever
\* returns
WatcherStop ==
    /\ wpc = "pool_down"
    /\ wpc' = "stopped"
    /\ UNCHANGED << is_running, pc, timer, enabled_projects, loop_project, pidx, gate_in,
                    skipped_last, batch_vars, tasks >>
    /\ UNCHANGED << keep_history, raised, stop_called >>
    /\ UNCHANGED side_vars

\* -------------------------------------------------------------------- spec
TaskIds == (1 - MaxOrphans)..(MaxRepres * MaxFiles)

Next ==
    \/ Run
    \/ Stop
    \/ \E paused \in BOOLEAN : WhileCheck(paused)
    \/ \E paused \in BOOLEAN, active \in Sites, remote \in Sites,
          enabled \in BOOLEAN, working \in SUBSET Sites :
          ReadSites(paused, active, remote, enabled, working)
    \/ \E K \in 1..MaxLimit : Gate(K)
    \/ \E paused \in BOOLEAN, n \in 0..MaxFiles : SchedRepre(paused, n)
    \/ \E path \in Paths, sites \in FileSites : SchedFile(path, sites)
    \/ SchedEnd
    \/ GatherReturn
    \/ WriteBack
    \/ WriteBackEnd
    \/ \E e \in LoopErrors : LoopRaises(e)
    \/ StartDelay
    \/ DelayElapsed
    \/ ResetTimer
    \/ \E caught \in BOOLEAN : TimerCancelled(caught)
    \/ \E t \in TaskIds,
          e \in UploadSetupErrors \cup DownloadSetupErrors \cup {NoExc} :
          TaskSetup(t, e)
    \/ \E t \in TaskIds, id \in FileIds, e \in TransferErrors \cup {NoExc} :
          TaskTransfer(t, id, e)
    \/ WatcherCancel
    \/ \E t \in TaskIds : WorkerFinish(t)
    \/ WatcherShutdown
    \/ WatcherStop

\* the module queues no long-running task
Spec == Init /\ [][Next]_vars

\* the module queues long-running tasks; the providers give the limit
\* MaxLimitLong and the representations have MaxFilesLong files at most;
\* is_project_paused answers true for a project in projects_processed, the
\* most the module can do to keep the sync loop away from it
NextLong ==
    \/ Run
    \/ Stop
    \/ \E paused \in BOOLEAN : WhileCheck(paused)
    \/ \E paused \in BOOLEAN, active \in Sites, remote \in Sites,
          enabled \in BOOLEAN, working \in SUBSET Sites :
          /\ pidx \in DOMAIN enabled_projects
          /\ project_name \in projects_processed => paused
          /\ ReadSites(paused, active, remote, enabled, working)
    \/ \E K \in 1..MaxLimitLong : Gate(K)
    \/ \E paused \in BOOLEAN, n \in 0..MaxFilesLong : SchedRepre(paused, n)
    \/ \E path \in Paths, sites \in FileSites : SchedFile(path, sites)
    \/ SchedEnd
    \/ GatherReturn
    \/ WriteBack
    \/ WriteBackEnd
    \/ \E e \in LoopErrors : LoopRaises(e)
    \/ StartDelay
    \/ DelayElapsed
    \/ ResetTimer
    \/ \E caught \in BOOLEAN : TimerCancelled(caught)
    \/ \E t \in TaskIds,
          e \in UploadSetupErrors \cup DownloadSetupErrors \cup {NoExc} :
          TaskSetup(t, e)
    \/ \E t \in TaskIds, id \in FileIds, e \in TransferErrors \cup {NoExc} :
          TaskTransfer(t, id, e)
    \/ \E name \in ProjectNames : Submit(name)
    \/ WatcherLongStart
    \/ \E ok \in BOOLEAN : WatcherLongEnd(ok)
    \/ WatcherCancel
    \/ \E t \in TaskIds : WorkerFinish(t)
    \/ WatcherShutdown
    \/ WatcherStop

SpecLong == Init /\ [][NextLong]_vars

\* the steps of upload and download taken one by one; the files are on one
\* of the two sites only; no long-running task is queued and no call of the
\* sync loop raises
NextTransfer ==
    \/ Run
    \/ Stop
    \/ \E paused \in BOOLEAN : WhileCheck(paused)
    \/ \E active \in Sites, remote \in Sites :
          ReadSites(FALSE, active, remote, TRUE, Sites)
    \/ \E K \in 1..MaxLimit : Gate(K)
    \/ \E n \in 0..MaxFiles : SchedRepre(FALSE, n)
    \/ \E path \in Paths, sites \in FileSitesTransfer : SchedFile(path, sites)
    \/ SchedEnd
    \/ GatherReturn
    \/ WriteBack
    \/ WriteBackEnd
    \/ StartDelay
    \/ DelayElapsed
    \/ \E t \in TaskIds, e \in EnterErrors("upload") \cup EnterErrors("download")
                                \cup {NoExc} :
          TaskEnter(t, e)
    \/ \E t \in TaskIds, made \in BOOLEAN : TaskLeave(t, made)
    \/ \E t \in TaskIds : WorkerStart(t)
    \/ \E t \in TaskIds, id \in FileIds, e \in TransferErrors \cup {NoExc} :
          WorkerReturn(t, id, e)
    \/ \E t \in TaskIds : TaskResume(t)
    \/ WatcherCancel
    \/ WatcherShutdown
    \/ WatcherStop

SpecTransfer == Init /\ [][NextTransfer]_vars

\* the path of the file at place f of representation r, no two alike
PathAt(r, f) == PathsPool[(r - 1) * MaxFiles + f]

\* the worker pool under load: batches of up to MaxLimitPool uploads of
\* different paths and one long-running task; no call raises
NextPool ==
    \/ Run
    \/ Stop
    \/ WhileCheck(FALSE)
    \/ ReadSites(FALSE, "studio", "gdrive", TRUE, Sites)
    \/ Gate(MaxLimitPool)
    \/ \E n \in 1..MaxFiles : SchedRepre(FALSE, n)
    \/ SchedFile(PathAt(ri, fi), [s \in Sites |-> IF s = "studio" THEN Present ELSE Fresh])
    \/ SchedEnd
    \/ GatherReturn
    \/ WriteBack
    \/ WriteBackEnd
    \/ StartDelay
    \/ DelayElapsed
    \/ \E t \in TaskIds : TaskEnter(t, NoExc)
    \/ \E t \in TaskIds : TaskLeave(t, TRUE)
    \/ \E t \in TaskIds : WorkerStart(t)
    \/ \E t \in TaskIds, id \in FileIds : WorkerReturn(t, id, NoExc)
    \/ \E t \in TaskIds : TaskResume(t)
    \/ submitted < MaxLongPool /\ Submit("p2")
    \/ WatcherLongPop
    \/ WorkerStartLong
    \/ WatcherLongEnd(TRUE)
    \/ WatcherCancel
    \/ WatcherShutdown
    \/ WatcherStop

SpecPool == Init /\ [][NextPool]_vars

\* ------------------------------------------------- the store over iterations
\* the one file of the store that is on one site only; every other file the
\* query yields is on both sites
StoredFile == <<1, 1>>

\* the records the query yields for the file at place f of representation r
StoredSites(r, f) ==
    IF <<r, f>> \in DOMAIN store THEN store[<<r, f>>]
    ELSE [s \in Sites |-> Present]

\* after construction, the stored file being on the site named on only
InitRetry ==
    /\ InitBatch
    /\ keep_history = FALSE
    /\ InitModule
    /\ NoCall
    /\ persistent = TRUE
    /\ nfail = 0
    /\ \E on \in Sites :
           store = (StoredFile :> [s \in Sites |-> IF s = on THEN Present ELSE Fresh])

\* the failed transfers of the stored file that are followed
MaxFails == 3

\* the program over a store that keeps what update_db wrote: the records
\* of a file are the ones the iterations before have left
NextRetry ==
    \/ Run
    \/ Stop
    \/ WhileCheck(FALSE)
    \/ ReadSites(FALSE, "studio", "gdrive", TRUE, Sites)
    \/ Gate(MaxLimit)
    \/ \E n \in 1..MaxFiles : SchedRepre(FALSE, n)
    \/ SchedFile(PathAt(ri, fi), StoredSites(ri, fi))
    \/ SchedEnd
    \/ GatherReturn
    \/ WriteBack
    \/ WriteBackEnd
    \/ \E x \in LoopErrors : LoopRaises(x)
    \/ StartDelay
    \/ DelayElapsed
    \/ \E t \in TaskIds,
          x \in UploadSetupErrors \cup DownloadSetupErrors \cup {NoExc} :
          nfail < MaxFails /\ TaskSetup(t, x)
    \/ \E t \in TaskIds, id \in FileIds, x \in TransferErrors \cup {NoExc} :
          nfail < MaxFails /\ TaskTransfer(t, id, x)
    \/ WatcherCancel
    \/ \E t \in TaskIds : WorkerFinish(t)
    \/ WatcherShutdown
    \/ WatcherStop

SpecRetry == InitRetry /\ [][NextRetry]_vars

\* ------------------------------------------------------------ resolve_paths
\* a path: its segments in order; "{root}" is the placeholder
EmptyPath == << >>

\* file["path"] as the store may hold it; file.get("path", "") gives the
\* empty path for a file without one
Templates ==
    { EmptyPath, << "{root}" >>, << "{root}", "a" >>, << "{root}", "b" >>,
      << "work", "a" >> }

Providers == {"local_drive", "gdrive"}

\* the root a provider's handler has for a site, from Settings or Anatomy
Root(provider, site) ==
    IF provider = "local_drive"
    THEN (IF site = "studio" THEN "/mnt/studio" ELSE "/home/gdrive")
    ELSE (IF site = "studio" THEN "studio:" ELSE "gdrive:")

\* lib.factory.get_provider(provider, project_name, site): a handler
get_provider(provider, name, site) ==
    [provider |-> provider, project_name |-> name, site |-> site,
     root |-> Root(provider, site)]

\* handler.resolve_path(path): the placeholders replaced by the root
resolve_path(handler, path) ==
    [i \in DOMAIN path |->
        IF path[i] = "{root}" THEN handler.root ELSE path[i]]

\* the remote_handler argument left at its default
NoHandler == << >>

\* lines 213-215: the remote path
remote_path(args) ==
    IF args.remote_handler # NoHandler
    THEN resolve_path(args.remote_handler[1], args.file_path)
    ELSE EmptyPath

\* variant: the local handler bound to the remote site
local_handler_remote(args) ==
    get_provider("local_drive", args.project_name, args.remote_site_name)

\* lines 217-219: the local handler, module.get_active_site(project_name)
\* being args.active
local_handler(args) ==
    get_provider("local_drive", args.project_name, args.active)

\* resolve_paths(module, file_path, project_name, remote_site_name,
\* remote_handler): (local_file_path, remote_file_path)
resolve_paths(args) ==
    [local |-> resolve_path(local_handler(args), args.file_path),
     remote |-> remote_path(args)]

\* the remote_handler argument: none, or a handler some provider made
RemoteHandlers ==
    {NoHandler} \cup { << get_provider(p, name, site) >> :
                     p \in Providers, name \in ProjectNames, site \in Sites }

\* the calls of resolve_paths, active being the active site of the project
ResolveCalls ==
    [file_path : Templates, project_name : ProjectNames,
     remote_site_name : Sites, remote_handler : RemoteHandlers,
     active : Sites]

\* a call of resolve_paths is about to be made on the constructed module
InitPaths ==
    /\ InitBatch
    /\ keep_history = FALSE
    /\ InitModule
    /\ NoStore
    /\ dl = [st |-> "idle"]
    /\ \E args \in ResolveCalls : rp = [st |-> "call", args |-> args]

\* the call returns
ResolvePaths ==
    /\ rp.st = "call"
    /\ rp' = [st |-> "returned", args |-> rp.args,
              result |-> resolve_paths(rp.args)]
    /\ UNCHANGED << is_running, pc, wpc, timer, enabled_projects, loop_project, pidx,
                    gate_in, skipped_last, batch_vars, tasks >>
    /\ UNCHANGED << keep_history, raised, stop_called >>
    /\ UNCHANGED << lock, long_vars, store_vars, dl >>

NextPaths == ResolvePaths

SpecPaths == InitPaths /\ [][NextPaths]_vars

\* ----------------------------------------- download_last_published_workfile
\* the answers of is_representation_on_site and the changes of what it
\* reads that are followed
MaxPolls == 3
MaxSiteChanges == 2

\* get_local_site_id()
local_site_id == "studio"

\* the calls: what modules_by_name.get("sync_server") gives, whether a
\* workfile subset, its last version and a representation of the task are
\* found, whether the representation is on the local site already
WorkfileCalls ==
    [sync_server : {"missing", "disabled", "enabled"}, subset : BOOLEAN,
     version : BOOLEAN, representation : BOOLEAN, on_site : BOOLEAN]

\* a call of download_last_published_workfile is about to be made
InitWorkfile ==
    /\ InitBatch
    /\ keep_history = FALSE
    /\ InitModule
    /\ NoStore
    /\ rp = [st |-> "idle"]
    /\ \E c \in WorkfileCalls :
           dl = [st |-> "call", sync_server |-> c.sync_server,
                 subset |-> c.subset, version |-> c.version,
                 representation |-> c.representation, on_site |-> c.on_site,
                 changes |-> 0, added |-> << >>, answers |-> << >>,
                 copied |-> FALSE, exc |-> None]

\* the function changes none of the variables of the thread
WorkfileOnly ==
    /\ UNCHANGED << is_running, pc, wpc, timer, enabled_projects, loop_project, pidx,
                    gate_in, skipped_last, batch_vars, tasks >>
    /\ UNCHANGED << keep_history, raised, stop_called >>
    /\ UNCHANGED << lock, long_vars, store_vars, rp >>

\* lines 360-363: without an enabled sync server module nothing is done
WorkfileModule ==
    /\ dl.st = "call"
    /\ dl' = [dl EXCEPT !.st = IF dl.sync_server = "enabled" THEN "subset"
                                ELSE "returned"]
    /\ WorkfileOnly

\* lines 393-431: the workfile subset, its last version and the
\* representation of the task are looked up; without a subset or a
\* representation the function returns, without a version
\* last_version_doc["_id"] raises TypeError
WorkfileLookup ==
    /\ dl.st = "subset"
    /\ dl' = IF ~dl.subset THEN [dl EXCEPT !.st = "returned"]
             ELSE IF ~dl.version
                  THEN [dl EXCEPT !.st = "raised", !.exc = "TypeError"]
             ELSE IF ~dl.representation THEN [dl EXCEPT !.st = "returned"]
             ELSE [dl EXCEPT !.st = "found"]
    /\ WorkfileOnly

\* lines 435-443: sync_server.add_site(...)
WorkfileAddSite ==
    /\ dl.st = "found"
    /\ dl' = [dl EXCEPT !.st = "poll",
                        !.added = Append(@, [site |-> local_site_id,
                                             force |-> TRUE, priority |-> 99,
                                             reset_timer |-> TRUE])]
    /\ WorkfileOnly

\* variant: the loop is left whatever the answer
PollNever(answer) == FALSE

\* line 445: while not sync_server.is_representation_on_site(...)
PollAgain(answer) == ~answer

\* lines 445-447: the predicate is asked for the local site; it answers
\* what the store holds at that moment
WorkfilePoll ==
    /\ dl.st = "poll"
    /\ Len(dl.answers) < MaxPolls
    /\ dl' = [dl EXCEPT !.answers = Append(@, dl.on_site),
                        !.st = IF PollAgain(dl.on_site) THEN "sleep" ELSE "copy"]
    /\ WorkfileOnly

\* line 448: sleep(5) is over
WorkfileSleep ==
    /\ dl.st = "sleep"
    /\ dl' = [dl EXCEPT !.st = "poll"]
    /\ WorkfileOnly

\* lines 450-467: version_up, shutil.copy, return new_workfile_path
WorkfileCopy ==
    /\ dl.st = "copy"
    /\ dl' = [dl EXCEPT !.st = "returned", !.copied = TRUE]
    /\ WorkfileOnly

\* the sync server, or somebody else, changes what the store holds for
\* the representation on the local site: the download is done, or the
\* site is reset
SiteChanges ==
    /\ dl.st \notin {"idle", "returned", "raised"}
    /\ dl.changes < MaxSiteChanges
    /\ dl' = [dl EXCEPT !.on_site = ~@, !.changes = @ + 1]
    /\ WorkfileOnly

NextWorkfile ==
    \/ WorkfileModule
    \/ WorkfileLookup
    \/ WorkfileAddSite
    \/ WorkfilePoll
    \/ WorkfileSleep
    \/ WorkfileCopy
    \/ SiteChanges

SpecWorkfile == InitWorkfile /\ [][NextWorkfile]_vars

\* batches over representations that all have files, every file on the
\* local site only and of a path of its own, some representations paused:
\* a representation none of whose files got a task was passed over
NextPaused ==
    \/ Run
    \/ Stop
    \/ WhileCheck(FALSE)
    \/ ReadSites(FALSE, "studio", "gdrive", TRUE, Sites)
    \/ \E K \in 1..MaxLimitPool : Gate(K)
    \/ \E paused \in BOOLEAN, n \in 1..MaxFiles : SchedRepre(paused, n)
    \/ SchedFile(PathAt(ri, fi), [s \in Sites |-> IF s = "studio" THEN Present ELSE Fresh])
    \/ SchedEnd
    \/ GatherReturn
    \/ WriteBack
    \/ WriteBackEnd
    \/ StartDelay
    \/ DelayElapsed
    \/ \E t \in TaskIds,
          x \in UploadSetupErrors \cup {NoExc} : TaskSetup(t, x)
    \/ \E t \in TaskIds, id \in FileIds, x \in TransferErrors \cup {NoExc} :
          TaskTransfer(t, id, x)
    \/ WatcherCancel
    \/ \E t \in TaskIds : WorkerFinish(t)
    \/ WatcherShutdown
    \/ WatcherStop

SpecPaused == Init /\ [][NextPaused]_vars

\* the thread with stop() called at any time from its start on
NextStart ==
    \/ StopBeforeRun
    \/ NextPaused

SpecStart == Init /\ [][NextStart]_vars

\* the thread with reset_timer() called at any time, self.timer followed
\* as the code leaves it
NextTimer ==
    \/ Run
    \/ Stop
    \/ WhileCheck(FALSE)
    \/ ReadSites(FALSE, "studio", "gdrive", TRUE, Sites)
    \/ \E K \in 1..MaxLimit : Gate(K)
    \/ \E n \in 1..MaxFiles : SchedRepre(FALSE, n)
    \/ SchedFile(PathAt(ri, fi), [s \in Sites |-> IF s = "studio" THEN Present ELSE Fresh])
    \/ SchedEnd
    \/ GatherReturn
    \/ WriteBack
    \/ WriteBackEnd
    \/ StartDelay
    \/ DelayElapsedTimerKept
    \/ ResetTimer
    \/ ResetTimerIdle
    \/ \E caught \in BOOLEAN : TimerCancelled(caught)
    \/ \E t \in TaskIds,
          x \in UploadSetupErrors \cup {NoExc} : TaskSetup(t, x)
    \/ \E t \in TaskIds, id \in FileIds, x \in TransferErrors \cup {NoExc} :
          TaskTransfer(t, id, x)
    \/ WatcherCancel
    \/ \E t \in TaskIds : WorkerFinish(t)
    \/ WatcherShutdown
    \/ WatcherStop

SpecTimer == Init /\ [][NextTimer]_vars

\* the same program, observed with the history of passed-over files
SpecHistory == InitHistory /\ [][Next]_vars

\* ----------------------------------------------------------- properties
\* the i-th task of the batch
BatchTask(i) == tasks[task_files_to_process[i]]

\* the number of living tasks in state st
Count(ts, st) == Cardinality({ t \in DOMAIN ts : ts[t].st = st })

\* the i-th update_db call of the batch carries the outcome of the i-th
\* task, for that task's file and representation
OwnOutcome(i) ==
    LET t == BatchTask(i)
        w == written[i]
    IN  /\ t.st = "done"
        /\ w.fid = t.fid
        /\ w.repre = t.repre
        /\ w.project = t.project
        /\ IF t.res.exc # NoExc
           THEN w.error = t.res.exc.msg /\ w.file_id = None
           ELSE w.file_id = t.res.value /\ w.error = None

\* C1: in the batch of a project whose provider gave the limit K, at most K
\* transfer tasks are created, whatever the representations and their files
C1_AtMostKTasks == Len(task_files_to_process) <= batch_limit

\* C2: a task of the batch that raises leaves its siblings as they are and
\* the sync loop awaiting; gather returns only with every task done and
\* into the write-back, where every task's own outcome is handed to
\* update_db
C2_SiblingIsolation ==
    /\ [](\A i \in DOMAIN written : OwnOutcome(i))
    /\ [][ /\ \A t \in Range(task_files_to_process) :
                 ( /\ tasks[t].st # "done"
                   /\ t \in DOMAIN tasks'
                   /\ tasks'[t].st = "done"
                   /\ tasks'[t].res.exc # NoExc )
                 => /\ pc' = pc
                    /\ task_files_to_process' = task_files_to_process
                    /\ \A u \in Range(task_files_to_process) \ {t} :
                           tasks'[u] = tasks[u]
           /\ (pc = "gather" /\ pc' \notin {"gather", "done"})
                 => /\ pc' = "writeback"
                    /\ tasks' = tasks
                    /\ task_files_to_process' = task_files_to_process
                    /\ \A i \in DOMAIN task_files_to_process :
                           BatchTask(i).st = "done" ]_vars

C2_Witness ==
    /\ pc = "writeback"
    /\ Len(written) = MaxFiles
    /\ BatchTask(1).res.exc # NoExc
    /\ \E i \in DOMAIN written : BatchTask(i).res.exc = NoExc

\* C3: update_db is called only when every task of the batch is done, and
\* while the write-back runs no task, nor the watcher, takes a step: the
\* calls follow one another
C3_WriteBackAfterBatch ==
    /\ []((pc = "writeback" \/ written # << >>)
            => \A i \in DOMAIN task_files_to_process : BatchTask(i).st = "done")
    /\ [][ pc = "writeback"
             => /\ wpc' = wpc
                /\ Count(tasks', "created") = Count(tasks, "created")
                /\ Count(tasks', "transfer") = Count(tasks, "transfer")
                /\ Count(tasks', "cancelled") = Count(tasks, "cancelled")
                /\ Len(written') <= Len(written) + 1 ]_vars

C3_Witness ==
    /\ pc = "writeback"
    /\ Len(task_files_to_process) = MaxFiles
    /\ Len(written) = MaxFiles - 1
    /\ Count(tasks, "created") + Count(tasks, "transfer") > 0

\* C4: while the server was not stopped, every living task belongs to the
\* batch that awaits it, its outcome was handed to update_db at most once,
\* and exactly once when the write-back is over
C4_EveryOutcomeWritten ==
    is_running =>
        /\ \A t \in DOMAIN tasks :
               t \in Range(task_files_to_process) /\ tasks[t].nwb <= 1
        /\ (pc = "writeback" /\ wi > ZipLen)
               => \A t \in Range(task_files_to_process) : tasks[t].nwb = 1

\* C5: the outcome of an upload that succeeded is written for the remote
\* site, the outcome of a download that succeeded for the local site, each
\* with the id the provider returned and no error
C5_SuccessWritten ==
    \A i \in DOMAIN written :
        LET t == BatchTask(i)
            w == written[i]
        IN  t.res.exc = NoExc
            => /\ w.site = IF t.kind = "upload" THEN remote_site ELSE local_site
               /\ w.file_id = t.res.value
               /\ w.file_id \in FileIds
               /\ w.error = None
               /\ w.fid = t.fid
               /\ w.repre = t.repre

C5_Witness ==
    \E i, j \in DOMAIN written :
        /\ BatchTask(i).kind = "upload" /\ written[i].file_id \in FileIds
        /\ BatchTask(j).kind = "download" /\ written[j].file_id \in FileIds

\* C6: a task that raised E does not make the await raise; its write-back
\* carries no file id and the message of E, and the file's record then
\* has the message, one attempt more and no id
C6_FailureWritten ==
    /\ [](\A i \in DOMAIN written :
            LET t == BatchTask(i)
                w == written[i]
                before == files_processed_info[i].file.sites[w.site]
                after == db[<< w.repre, w.fid >>][w.site]
            IN  t.res.exc # NoExc
                => /\ w.file_id = None
                   /\ w.error = t.res.exc.msg
                   /\ after.error = t.res.exc.msg
                   /\ after.tries = before.tries + 1
                   /\ after.id = None)
    /\ [][ ( /\ pc = "gather"
             /\ pc' \notin {"gather", "done"}
             /\ \E i \in DOMAIN task_files_to_process :
                    BatchTask(i).res.exc # NoExc )
           => (pc' = "writeback" /\ is_running' = is_running) ]_vars

C6_Witness ==
    \E i \in DOMAIN written :
        /\ BatchTask(i).res.exc \in TransferErrors
        /\ files_processed_info[i].file.sites[written[i].site].tries = RetryCnt - 1
        /\ db[<< written[i].repre, written[i].fid >>][written[i].site].tries = RetryCnt

\* C7: no update_db call of the write-back has a file id and an error: a
\* success is written with its id and without error, whatever error the
\* record had before, a failure with its error and without file id
C7_IdOrError ==
    \A i \in DOMAIN written :
        LET t == BatchTask(i)
            w == written[i]
        IN  /\ ~(w.file_id # None /\ w.error # None)
            /\ t.res.exc = NoExc => (w.file_id = t.res.value /\ w.error = None)
            /\ t.res.exc # NoExc => (w.file_id = None /\ w.error # None)

C7_Witness ==
    \E i, j \in DOMAIN written :
        /\ BatchTask(i).res.exc = NoExc
        /\ files_processed_info[i].file.sites[written[i].site].error # None
        /\ BatchTask(j).res.exc # NoExc

\* what the gate is to refuse: the project paused, one site for both roles,
\* sync not enabled for the project, or a site whose handler is not active
Ineligible(g) ==
    \/ g.paused
    \/ g.active = g.remote
    \/ ~g.enabled
    \/ g.active \notin g.working
    \/ g.remote \notin g.working

\* C8: for a project that is paused, has one site for both roles or a site
\* that is not configured, the pass fetches nothing, creates no task and
\* calls update_db not once
C8_IneligibleSkipped ==
    /\ []((gate_in # NoGate /\ Ineligible(gate_in))
            => /\ pc \in {"gate", "for"}
               /\ task_files_to_process = << >>
               /\ written = << >>
               /\ batch_limit = 0)
    /\ [][ (pc = "gate" /\ Ineligible(gate_in))
           => /\ pc' # "sched"
              /\ Cardinality(DOMAIN tasks') <= Cardinality(DOMAIN tasks) ]_vars

C8_Witness ==
    /\ skipped_last
    /\ ~gate_in.paused
    /\ gate_in.enabled
    /\ gate_in.active # gate_in.remote
    /\ gate_in.working = {gate_in.active}

\* C9: the step that skips a project only moves the for loop to the next
\* project: the flag and the watcher are as before, and a project that
\* remains is taken next
C9_SkipGoesOn ==
    /\ []((skipped_last /\ LoopRuns /\ pidx <= Len(enabled_projects))
            => ENABLED (\E working \in SUBSET Sites :
                           ReadSites(FALSE, "studio", "gdrive", TRUE, working)))
    /\ [][ (~skipped_last /\ skipped_last')
           => /\ pc = "gate"
              /\ pc' = "for"
              /\ pidx' = pidx + 1
              /\ enabled_projects' = enabled_projects
              /\ is_running' = is_running
              /\ wpc' = wpc ]_vars

C9_Witness ==
    /\ skipped_last
    /\ is_running
    /\ pc = "for"
    /\ pidx = Len(enabled_projects)
    /\ pidx > 1

\* C10: the transfer tasks in flight at one time are all of one project,
\* and while the tasks of a project are created no task of another project
\* is in flight
C10_OneProjectInFlight ==
    /\ \A t, u \in Unfinished(tasks) : tasks[t].project = tasks[u].project
    /\ pc = "sched"
          => \A t \in Unfinished(tasks) : tasks[t].project = project_name

\* C11: in the batch of a project no two tasks are created for one file
\* path, and a file passed over for its path comes after the scheduled
\* file of that path
C11_OneTaskPerPath ==
    /\ \A i, j \in DOMAIN files_processed_info :
           i # j => /\ files_processed_info[i].file.path
                          # files_processed_info[j].file.path
                    /\ BatchTask(i).path # BatchTask(j).path
    /\ \A d \in duplicates :
           \E i \in DOMAIN files_processed_info :
               LET info == files_processed_info[i]
               IN  /\ info.file.path = d.path
                   /\ \/ info.repre < d.repre
                      \/ info.repre = d.repre /\ info.file.fid < d.fid

C11_Witness ==
    \E d \in duplicates :
        \E i \in DOMAIN files_processed_info :
            /\ files_processed_info[i].file.path = d.path
            /\ files_processed_info[i].repre # d.repre
            /\ Len(task_files_to_process) = 1
            /\ pc = "gather"

\* C12: when the write-back of a batch is over, a file of another
\* representation that was passed over for its path has, for the remote
\* site, the file id of the upload that was scheduled for that path and
\* succeeded
C12_SharedPathSameId ==
    (pc = "writeback" /\ wi > ZipLen)
    => \A d \in duplicates :
          \A i \in DOMAIN written :
              LET info == files_processed_info[i]
              IN  ( /\ info.file.path = d.path
                    /\ info.repre # d.repre
                    /\ BatchTask(i).kind = "upload"
                    /\ BatchTask(i).res.exc = NoExc )
                  => db[<< d.repre, d.fid >>][remote_site].id
                        = db[<< info.repre, info.file.fid >>][remote_site].id

\* the exceptions the except clauses of lines 658 and 666 only log
Resumable == {"ConnectionResetError", "ResumableError"}

\* C13: the handling of a ConnectionResetError or ResumableError leaves the
\* flag and the watcher as they are, and with the flag true the loop then
\* starts a further iteration
C13_ResumableGoesOn ==
    [][ /\ (raised = None /\ raised' \in Resumable)
              => (is_running' = is_running /\ wpc' = wpc /\ pc' = "while")
        /\ (pc = "while" /\ raised \in Resumable /\ is_running /\ pc' # pc)
              => pc' = "for" ]_vars

\* C18: when reset_timer has cancelled the sleep of a running server, the
\* sync loop goes on to the loop condition for the next iteration
C18_ResetTimerSurvives ==
    [][ (pc = "timer_cancelled" /\ is_running /\ pc' # pc)
          => (pc' = "while" /\ timer' = None) ]_vars

\* C19: an iteration starts only as the first one or after the delay sleep
\* has elapsed or was cancelled, never straight from an except clause
C19_DelayBetweenIterations ==
    [][ (pc = "while" /\ pc' = "for") => raised = None ]_vars

\* C20: while the flag is true (stop() was not called and no exception
\* made the loop call it) the sync loop has not ended
C20_LoopGoesOn ==
    is_running => pc \notin {"done", "cancelled"}

Fatal == {e.cls : e \in LoopErrors} \ (Resumable \cup {"CancelledError"})

\* C14: an exception of the sync loop that is neither resumable nor a
\* cancellation sets the running flag false, the flag stays false, no
\* iteration starts afterwards, and the watcher is there to see the flag and
\* tear the scheduler down
C14_FatalStops ==
    /\ [][ /\ (raised' \in Fatal /\ raised' # raised) => ~is_running'
           /\ (pc = "while" /\ raised \in Fatal) => pc' \in {"while", "done"}
           /\ (~is_running /\ pc # "init") => ~is_running' ]_vars
    /\ [](raised \in Fatal => wpc \in {"poll", "long", "teardown",
                                         "pool_down", "stopped"})

\* C15: once stop() has set the flag false on a started server, the watcher
\* is polling, awaiting a long-running task, tearing down or has stopped the
\* loop: it has not ended without stopping the loop
C15_StopIsObserved ==
    (~is_running /\ pc # "init") => wpc # "dead"

TornDown == {"teardown", "pool_down", "stopped"}

\* C16: teardown never begins while the flag is true; in it every task other
\* than the watcher is cancelled and awaited, then the worker pool is shut
\* down when no worker executes any more, and only then the loop is stopped
C16_TeardownOrdered ==
    /\ [](wpc \in TornDown =>
             /\ ~is_running
             /\ pc \in {"done", "cancelled"}
             /\ timer = None
             /\ \A t \in DOMAIN tasks : tasks[t].st \notin {"created", "transfer"})
    /\ [](wpc \in {"pool_down", "stopped"} =>
             \A t \in DOMAIN tasks : tasks[t].st # "detached")
    /\ [][ /\ (wpc' = "teardown" /\ wpc # "teardown") => (wpc = "poll" /\ ~is_running)
           /\ (wpc' = "pool_down" /\ wpc # "pool_down") => wpc = "teardown"
           /\ (wpc' = "stopped" /\ wpc # "stopped") => wpc = "pool_down"
           /\ wpc \in TornDown => wpc' \in TornDown ]_vars

\* the pool shutdown is waiting for a transfer that still executes on a
\* worker after its task was cancelled
C16_Witness ==
    /\ wpc = "teardown"
    /\ \E t \in DOMAIN tasks : tasks[t].st = "detached"

C30_TaskOnlyForTransferStatus ==
    [][ pc = "sched" /\ pc' = "sched" =>
          LET n == Len(task_files_to_process)
          IN  \/ /\ task_files_to_process' = task_files_to_process
                 /\ tasks' = tasks
                 /\ limit' = limit
              \/ /\ Len(task_files_to_process') = n + 1
                 /\ DOMAIN tasks' = DOMAIN tasks \cup {task_files_to_process'[n + 1]}
                 /\ task_files_to_process'[n + 1] \notin DOMAIN tasks
                 /\ limit' = limit - 1
                 /\ LET t == tasks'[task_files_to_process'[n + 1]]
                        status == check_status(files_processed_info'[n + 1].file,
                                               local_site, remote_site)
                    IN  \/ status = DO_UPLOAD /\ t.kind = "upload"
                        \/ status = DO_DOWNLOAD /\ t.kind = "download" ]_vars

\* one batch holds an upload task and a download task and the limit went
\* down by two
C30_Witness ==
    /\ pc = "sched"
    /\ Len(task_files_to_process) = 2
    /\ limit = batch_limit - 2
    /\ \E i, j \in DOMAIN task_files_to_process :
           /\ BatchTask(i).kind = "upload"
           /\ BatchTask(j).kind = "download"

\* the func of submitted task i has been started and is not executing
LongFinished(i) ==
    /\ long_ran[i].runs >= 1
    /\ ~(wpc = "long" /\ long_task.id = i)

\* C25: the func of a submitted task is started at most once; the watcher
\* takes one task from the queue per poll and none while a func executes;
\* and the project of a task that has finished is not in projects_processed,
\* unless a task of the project that has not finished was submitted
C25_LongTasksOneAtATime ==
    /\ [](\A i \in DOMAIN long_ran : long_ran[i].runs <= 1)
    /\ [][ /\ Len(long_running_tasks') >= Len(long_running_tasks) - 1
           /\ wpc \in {"long", "dead"} =>
                  Len(long_running_tasks') >= Len(long_running_tasks) ]_vars
    /\ [](\A i \in DOMAIN long_ran :
             LongFinished(i) =>
                 \/ long_ran[i].project_name \notin projects_processed
                 \/ \E j \in DOMAIN long_ran :
                        /\ ~LongFinished(j)
                        /\ long_ran[j].project_name = long_ran[i].project_name)

\* C26: while the func of a long-running task of a project executes, the
\* sync loop is not in the scheduling pass, the gather or the write-back of
\* that project
C26_NoRaceWithLongTask ==
    (wpc = "long" /\ pc \in {"sched", "gather", "writeback"})
        => project_name # long_task.project_name

\* the tasks inside the locked section
Locked == { t \in DOMAIN tasks : tasks[t].st = "locked" }

C22_TransferAfterFolder ==
    /\ [](\A t \in DOMAIN tasks :
             (tasks[t].kind = "upload"
                /\ (tasks[t].st \in {"queued", "transfer", "returned", "detached"}
                      \/ tasks[t].log.sent \/ tasks[t].log.nalt > 0))
                 => tasks[t].log.folder = "made")
    /\ [](\A t \in DOMAIN tasks :
             tasks[t].log.folder = "not made" =>
                 /\ tasks[t].st = "done"
                 /\ tasks[t].res.exc.cls = "NotADirectoryError"
                 /\ ~tasks[t].log.sent
                 /\ tasks[t].log.nalt = 0)
    /\ [][ \A t \in DOMAIN tasks :
              (t \in DOMAIN tasks' /\ tasks[t].log.folder = None
                 /\ tasks'[t].log.folder = "not made")
                  => /\ \A u \in DOMAIN tasks \ {t} :
                            u \in DOMAIN tasks' /\ tasks'[u] = tasks[u]
                     /\ is_running' = is_running
                     /\ pc' = pc ]_vars

\* the folder of one upload was not created and the upload failed; the
\* other upload of the batch has succeeded
C22_Witness ==
    \E t, u \in DOMAIN tasks :
        /\ tasks[t].log.folder = "not made"
        /\ tasks[t].st = "done"
        /\ tasks[u].kind = "upload"
        /\ tasks[u].st = "done"
        /\ tasks[u].res.exc = NoExc
        /\ tasks[u].log.sent

\* C23: at most 3 blocking calls execute at a time; a byte transfer starts
\* to execute only as a worker takes it from the pool's queue, and so does
\* the func of a long-running task
C23_AtMostThreeOnWorkers ==
    /\ [](Executing <= 3)
    /\ [][ /\ \A t \in DOMAIN tasks :
                 (t \in DOMAIN tasks' /\ tasks'[t].st = "transfer"
                    /\ tasks[t].st # "transfer")
                     => tasks[t].st = "queued"
           /\ (wpc' = "long" /\ wpc # "long") => wpc = "long_queued" ]_vars

\* three blocking calls execute, the func of a long-running task among
\* them, and two transfers wait for a worker
C23_Witness ==
    /\ Executing = 3
    /\ wpc = "long"
    /\ Cardinality({ t \in DOMAIN tasks : tasks[t].st = "queued" }) = 2

\* C24: a task whose byte transfer returned a file id has called
\* handle_alternate_site exactly once when it is over, with that id and
\* with the remote site in upload, the local site in download; no task
\* calls it twice, nor before or without its transfer returning an id
C24_AlternateOncePerTransfer ==
    \A t \in DOMAIN tasks :
        /\ tasks[t].log.nalt <= 1
        /\ tasks[t].log.nalt = 1 =>
               /\ tasks[t].log.sent
               /\ tasks[t].log.alt =
                      [site |-> IF tasks[t].kind = "upload" THEN remote_site
                                ELSE local_site,
                       id |-> tasks[t].res.value]
        /\ (tasks[t].log.sent /\ tasks[t].st \in {"done", "cancelled"})
               => tasks[t].log.nalt = 1

\* the stored file has failed RetryCnt times or more
Exhausted == persistent /\ nfail >= RetryCnt

\* a step of the sync loop that creates a transfer task
TaskCreated == Len(task_files_to_process') > Len(task_files_to_process)

\* C27: a file whose transfers fail is scheduled a bounded number of times:
\* once RetryCnt transfers of the file to the site have failed, check_status
\* gives ERROR for it when the file is looked at, and no step of the sync
\* loop creates a transfer task for it any more
C27_RetryBound ==
    /\ []((Exhausted /\ pc = "sched" /\ Unfinished(tasks) = {})
            => check_status(File(1, PathAt(1, 1), StoredSites(1, 1)),
                            local_site, remote_site) = ERROR)
    /\ [][Exhausted => ~TaskCreated]_vars

\* a call of resolve_paths has returned
Resolved == rp.st = "returned"

\* the variables that hold the state of the sync: everything but the call
sync_state ==
    << is_running, pc, wpc, timer, enabled_projects, loop_project, pidx, gate_in,
       skipped_last, batch_vars, tasks, keep_history, raised, lock, long_vars,
       store_vars >>

\* the local path of a returned call is what the "local_drive" handler of
\* the project's active site resolves the template to
LocalByActiveSite ==
    Resolved =>
        rp.result.local =
            resolve_path(get_provider("local_drive", rp.args.project_name,
                                      rp.args.active), rp.args.file_path)

\* C28 (as the code has it): without a remote handler the remote path is
\* empty, with one it is the handler's resolve_path of the template, which
\* is empty for an empty template; the local path is resolved by the
\* "local_drive" provider of the project's active site; no sync state changes
C28_ResolvePaths ==
    /\ [](Resolved =>
            /\ rp.args.remote_handler = NoHandler => rp.result.remote = EmptyPath
            /\ rp.args.remote_handler # NoHandler =>
                   rp.result.remote =
                       resolve_path(rp.args.remote_handler[1], rp.args.file_path)
            /\ (rp.result.remote = EmptyPath) <=>
                   (rp.args.remote_handler = NoHandler \/ rp.args.file_path = EmptyPath))
    /\ []LocalByActiveSite
    /\ [][rp'.st # rp.st => UNCHANGED sync_state]_vars

\* a handler was supplied, the template is empty, the remote path is empty
C28_Witness ==
    /\ Resolved
    /\ rp.args.remote_handler # NoHandler
    /\ rp.args.file_path = EmptyPath
    /\ rp.result.remote = EmptyPath
    /\ rp.result.local = EmptyPath

\* C28 as stated: the remote path is empty exactly when no remote handler
\* is supplied
C28_EmptyExactlyWithoutHandler ==
    Resolved =>
        ((rp.result.remote = EmptyPath) <=> (rp.args.remote_handler = NoHandler))

\* a call of download_last_published_workfile is under way or over
Called == dl.st # "idle"

\* the last answer of is_representation_on_site was true
AnsweredTrue == dl.answers # << >> /\ dl.answers[Len(dl.answers)]

\* C29: download_last_published_workfile asks for the sync (add_site for the
\* local site with force, priority and reset_timer) before it asks the
\* predicate the first time, and copies the workfile only after
\* is_representation_on_site has answered true for the local site: the
\* copy never follows an answer of false
C29_CopyAfterOnSite ==
    /\ [](Called =>
            /\ dl.answers # << >> => Len(dl.added) = 1
            /\ \A i \in DOMAIN dl.added :
                   /\ dl.added[i].site = local_site_id
                   /\ dl.added[i].force
                   /\ dl.added[i].priority = 99
                   /\ dl.added[i].reset_timer
            /\ dl.copied => Len(dl.added) = 1 /\ AnsweredTrue
            /\ dl.st = "copy" => AnsweredTrue)
    /\ [][(Called /\ dl'.copied /\ ~dl.copied) => AnsweredTrue]_vars

\* the workfile was copied after the predicate had answered false and then true
C29_Witness ==
    /\ Called
    /\ dl.copied
    /\ Len(dl.answers) >= 2
    /\ ~dl.answers[1]
    /\ AnsweredTrue

\* the sync loop looks at the next representation, which is paused
PausedRepreExamined == \E n \in 0..MaxFiles : SchedRepre(TRUE, n)

\* C31: a representation that is paused when the iteration comes to it is
\* passed over: none of its files is looked at, so no task is created for
\* one, and the limit is what it was; the tasks that are created are for
\* files of the representation whose files are being looked at
C31_PausedRepreSkipped ==
    /\ [][PausedRepreExamined =>
            /\ fi' = 0
            /\ nfiles' = 0
            /\ UNCHANGED << limit, tasks, task_files_to_process,
                            files_processed_info, processed_file_path >>]_vars
    /\ [][TaskCreated =>
            /\ fi >= 1
            /\ ri' = ri
            /\ tasks'[Len(task_files_to_process')].repre = ri
            /\ limit' = limit - 1]_vars

\* the second representation has files that need a transfer and there is
\* limit left, and none of its files got a task: it was paused; the tasks
\* of the batch are for the files of the first
C31_Witness ==
    /\ pc = "sched"
    /\ ri = 2
    /\ fi = 0
    /\ limit >= 1
    /\ Len(task_files_to_process) >= 1
    /\ \A t \in Range(task_files_to_process) : tasks[t].repre = 1

\* the i-th bookkeeping entry is the one of the i-th task of the batch
SameFile(i) ==
    LET t == BatchTask(i)
        info == files_processed_info[i]
    IN  /\ info.file.fid = t.fid
        /\ info.file.path = t.path
        /\ info.repre = t.repre
        /\ info.project = t.project
        /\ info.site = IF t.kind = "upload" THEN remote_site ELSE local_site

\* C32: the tasks of a batch and their bookkeeping entries are lists of one
\* length in one order, and every update_db call of the write-back carries
\* the outcome of a task together with the file, the representation and
\* the site that task was created for, whatever the order the tasks were
\* done in
C32_OutcomeForOwnFile ==
    /\ Len(task_files_to_process) = Len(files_processed_info)
    /\ \A i \in DOMAIN task_files_to_process :
           /\ task_files_to_process[i] \in DOMAIN tasks
           /\ SameFile(i)
    /\ \A i \in DOMAIN written :
           LET t == BatchTask(i)
               w == written[i]
           IN  /\ w.fid = t.fid
               /\ w.repre = t.repre
               /\ w.project = t.project
               /\ w.site = files_processed_info[i].site
               /\ IF t.res.exc # NoExc
                  THEN w.error = t.res.exc.msg /\ w.file_id = None
                  ELSE w.file_id = t.res.value /\ w.error = None

\* two files of a batch, the upload of the first failed and the download
\* of the second gave an id: each outcome is written with its own file
C32_Witness ==
    /\ pc = "writeback"
    /\ Len(written) = 2
    /\ BatchTask(1).kind = "upload"
    /\ BatchTask(2).kind = "download"
    /\ written[1].error # None
    /\ written[2].file_id \in FileIds
    /\ written[1].site # written[2].site
    /\ << written[1].repre, written[1].fid >> # << written[2].repre, written[2].fid >>

\* C33: of the transfer tasks that are not yet done no two are for the same
\* project and file path, be they of one iteration or of two
C33_OneTaskPerFileOutstanding ==
    \A t, u \in Unfinished(tasks) :
        (t # u /\ tasks[t].project = tasks[u].project)
            => tasks[t].path # tasks[u].path

\* a step of the sync loop that fetches the candidates of a project
CandidatesFetched == pc = "gate" /\ pc' = "sched"

\* a step of the watcher that starts the func of a long-running task
LongTaskStarted == wpc # "long" /\ wpc' = "long"

\* C34: while the flag is false after stop(), no step creates a transfer
\* task, none fetches the candidates of a project and none starts a
\* long-running task
C34_NothingNewAfterStop ==
    [][(pc # "init" /\ ~is_running)
           => ~TaskCreated /\ ~CandidatesFetched /\ ~LongTaskStarted]_vars

\* C35: once stop() has been called the flag is false and stays false,
\* whenever the call was made from the start of the thread on
C35_StopNeverLost == stop_called => ~is_running

\* the await of the func of a long-running task is over
LongTaskOver == wpc = "long" /\ wpc' # "long"

\* C36: when the func of a long-running task is over, by a return or by an
\* exception, the watcher goes on with its next poll, from where it runs
\* the tasks still queued and tears down after stop(), and the project of
\* the task is not in projects_processed any more
C36_WatcherSurvivesLongTask ==
    [][LongTaskOver =>
          /\ wpc' = "poll"
          /\ long_task.project_name \notin projects_processed']_vars

\* everything but self.timer
but_timer ==
    << is_running, pc, wpc, enabled_projects, loop_project, pidx, gate_in,
       skipped_last, batch_vars, tasks, keep_history, raised, stop_called,
       side_vars >>

\* the delay sleep is in progress: the timer task sleeps and the sync loop
\* awaits it
SleepInProgress == timer = "sleeping" /\ pc = "delay"

PathsRaised ==
    { t \in DOMAIN tasks :
        tasks[t].kind = "upload" /\ tasks[t].log.paths = "raised" }

\* C38: an upload in which resolve_paths raised has called neither
\* create_folder nor upload_file, does not hold module.lock and is done with
\* an exception; what the write-back hands to update_db for its file is an
\* error and no file id
C38_ResolveErrorFailsUpload ==
    /\ \A t \in PathsRaised :
           /\ tasks[t].log.folder = None
           /\ ~tasks[t].log.sent
           /\ tasks[t].log.nalt = 0
           /\ lock # HeldBy(t)
           /\ tasks[t].st = "done"
           /\ tasks[t].res.exc # NoExc
           /\ tasks[t].res.value = None
    /\ \A i \in DOMAIN written :
           task_files_to_process[i] \in PathsRaised
               => /\ written[i].error = "remote_file_path"
                  /\ written[i].file_id = None
                  /\ written[i].fid = BatchTask(i).fid

\* the write-back has handed the error of an upload in which resolve_paths
\* raised to update_db, while the upload of another file got its id
C38_Witness ==
    /\ pc = "writeback"
    /\ lock = Free
    /\ Len(written) = 2
    /\ \E i, j \in DOMAIN written :
           /\ task_files_to_process[i] \in PathsRaised
           /\ written[i].error = "remote_file_path"
           /\ written[i].file_id = None
           /\ BatchTask(j).kind = "upload"
           /\ written[j].file_id \in FileIds

\* the last project the pass has enumerated, if it has enumerated one
LastEnumerated ==
    IF enabled_projects = << >> THEN None
    ELSE enabled_projects[Len(enabled_projects)]

\* C39: the delay is awaited only when the for loop has taken every enabled
\* project, once for the pass; the project get_loop_delay was asked for is
\* the last one of the pass, passed over or not, and None when no project
\* is enabled
C39_DelayOncePerPass ==
    /\ [](pc = "delay" =>
            /\ pidx = Len(enabled_projects) + 1
            /\ timer = "sleeping"
            /\ loop_project = LastEnumerated)
    /\ [][(pc # "delay" /\ pc' = "delay")
              => (pc = "for" /\ pidx > Len(enabled_projects))]_vars
    /\ [][(pc \in {"gate", "writeback"} /\ pc' # pc /\ is_running'
              /\ raised' = raised /\ wpc' = wpc)
              => pc' \in {"for", "sched"}]_vars

\* the delay of a pass over two projects the second of which was passed over
C39_Witness ==
    /\ pc = "delay"
    /\ timer = "sleeping"
    /\ enabled_projects = << "p1", "p2" >>
    /\ loop_project = "p2"
    /\ skipped_last

====
